---------------------------- MODULE Spec2Model ----------------------------
(***************************************************************************)
(* Model of dash_app.py: the start-up script of the mortality dashboard.   *)
(* The script runs top to bottom once: it creates the Dash app, reads the  *)
(* parquet and GeoJSON files, keeps the rows of 2019, computes seven       *)
(* group-by tables, builds one figure per table, assigns app.layout and    *)
(* starts serving.  There is no try/except anywhere: an exception raised   *)
(* by any statement ends the script.                                       *)
(*                                                                         *)
(* A data frame is a sequence of rows; a row is a function from column     *)
(* names to values.  Categorical text values (department, municipality,    *)
(* cause code, cause description, sex) are written as positive integers    *)
(* that stand for the names in their sort order, so that the key order of  *)
(* groupby can be computed.  MANERA_MUERTE keeps its text, because the     *)
(* script compares it with the literal 'Homicidio'.                        *)
(***************************************************************************)
EXTENDS Integers, Sequences, FiniteSets, TLC

VARIABLES
    pc,                \* the statement the script is about to execute
    parquetFile,       \* final_dataframe.parquet on disk
    geoFile,           \* colombia_departamentos.geojson on disk
    renderFault,       \* the figure whose plotly constructor raises, or "none"
    ns,                \* the module namespace: the names assigned so far
    layout,            \* the children of app.layout (<<>> while it is None)
    served,            \* number of page requests answered
    response           \* the page handed to the last request

inputs == <<parquetFile, geoFile, renderFault>>
vars == <<pc, inputs, ns, layout, served, response>>

----------------------------------------------------------------------------
(* Bounds of the model *)

\* rows of a small input frame
MaxRows == 2
\* distinct municipalities, causes and age codes of a large input frame
MaxKeys == 19
\* page requests answered after start-up
MaxRequests == 2

----------------------------------------------------------------------------
(* Program constants *)

TargetYear == 2019
TopN == 5
BottomN == 10
HeadN == 10
Homicidio == "Homicidio"

\* pandas' missing value in a numeric or coded column
NaN == 0 - 1
\* the missing value in a column of labels
NaNLabel == "NaN"

AllColumns ==
    {"AÑO", "DEPARTAMENTO", "MUNICIPIO", "MANERA_MUERTE", "COD_MUERTE",
     "Descripción CIE-10", "GRUPO_EDAD1", "SEXO", "MES"}

----------------------------------------------------------------------------
(* Sequences *)

Range(s) == {s[i] : i \in DOMAIN s}

\* df[mask]: the rows at the positions where the boolean mask is True, in
\* their order
RECURSIVE MaskRange(_, _, _, _)
MaskRange(rows, mask, lo, hi) ==
    IF lo > hi THEN <<>>
    ELSE IF lo = hi THEN (IF lo \in mask THEN <<rows[lo]>> ELSE <<>>)
    ELSE LET mid == (lo + hi) \div 2
         IN  MaskRange(rows, mask, lo, mid) \o MaskRange(rows, mask, mid + 1, hi)

MaskRows(rows, mask) == MaskRange(rows, mask, 1, Len(rows))

\* DataFrame.head(n)
HeadRows(rows, n) == SubSeq(rows, 1, IF Len(rows) < n THEN Len(rows) ELSE n)

----------------------------------------------------------------------------
(* groupby(by).size().reset_index(name=name) *)

KeyOf(r, by) == [n \in 1..Len(by) |-> r[by[n]]]

\* lexicographic order of key tuples of equal length
RECURSIVE LexLess(_, _)
LexLess(a, b) ==
    /\ a # <<>>
    /\ \/ Head(a) < Head(b)
       \/ Head(a) = Head(b) /\ LexLess(Tail(a), Tail(b))

RECURSIVE SortKeys(_)
SortKeys(S) ==
    IF S = {} THEN <<>>
    ELSE LET k == CHOOSE m \in S : \A o \in S : o = m \/ LexLess(m, o)
         IN  <<k>> \o SortKeys(S \ {k})

\* groupby drops the rows that have a missing value in a key column
\* (dropna=True, the default)
HasNaN(k) == \E n \in DOMAIN k : k[n] = NaN

GroupKeys(rows, by, dropna) ==
    {k \in {KeyOf(rows[i], by) : i \in DOMAIN rows} : dropna => ~HasNaN(k)}

GroupSize(rows, by, k) == Cardinality({i \in DOMAIN rows : KeyOf(rows[i], by) = k})

\* one row per key, in ascending key order (sort=True, the default)
GroupRows(rows, by, name, ks) ==
    [n \in 1..Len(ks) |->
        [c \in Range(by) \cup {name} |->
            IF c = name THEN GroupSize(rows, by, ks[n])
            ELSE ks[n][CHOOSE j \in DOMAIN by : by[j] = c]]]

GroupBySize(rows, by, name) ==
    GroupRows(rows, by, name, SortKeys(GroupKeys(rows, by, TRUE)))

----------------------------------------------------------------------------
(* Sorting.  sort_values uses kind='quicksort', which is not stable: the   *)
(* order of rows with equal values is whatever the numpy build produces.   *)
(* Every order of the tied rows is a possible outcome.                     *)

Column(rows, c) == [i \in DOMAIN rows |-> rows[i][c]]

RECURSIVE Perms(_)
Perms(S) ==
    IF S = {} THEN {<<>>}
    ELSE UNION {{<<x>> \o p : p \in Perms(S \ {x})} : x \in S}

\* the positions in I whose value comes first in the requested direction
FirstGroup(rows, I, c, ascending) ==
    {i \in I : \A j \in I : IF ascending THEN rows[i][c] <= rows[j][c]
                                         ELSE rows[i][c] >= rows[j][c]}

RECURSIVE OrderOutcomes(_, _, _, _)
OrderOutcomes(rows, I, c, ascending) ==
    IF I = {} THEN {<<>>}
    ELSE LET G == FirstGroup(rows, I, c, ascending)
         IN  {p \o q : p \in Perms(G),
                       q \in OrderOutcomes(rows, I \ G, c, ascending)}

\* DataFrame.sort_values(c, ascending=...): the possible results
SortValuesOutcomes(rows, c, ascending) ==
    {[n \in DOMAIN rows |-> rows[p[n]]] :
        p \in OrderOutcomes(rows, DOMAIN rows, c, ascending)}

\* A stable sort (kind='mergesort'): tied rows keep their order
RECURSIVE StableOrder(_, _, _, _)
StableOrder(rows, I, c, ascending) ==
    IF I = {} THEN <<>>
    ELSE LET G == FirstGroup(rows, I, c, ascending)
             i == CHOOSE m \in G : \A o \in G : m <= o
         IN  <<i>> \o StableOrder(rows, I \ {i}, c, ascending)

StableSort(rows, c, ascending) ==
    [n \in DOMAIN rows |-> rows[StableOrder(rows, DOMAIN rows, c, ascending)[n]]]

\* nlargest / nsmallest (keep='first') on one column.  With n >= len the
\* library sorts the whole column with sort_values and takes head(n); with
\* n < len it selects the n extreme values with a stable argsort.
SelectN(rows, n, c, ascending) ==
    IF n >= Len(rows)
    THEN {HeadRows(r, n) : r \in SortValuesOutcomes(rows, c, ascending)}
    ELSE {HeadRows(StableSort(rows, c, ascending), n)}

NLargest(rows, n, c) == SelectN(rows, n, c, FALSE)
NSmallest(rows, n, c) == SelectN(rows, n, c, TRUE)

----------------------------------------------------------------------------
(* Age labels: {i: f"{(i-1)*5}-{(i-1)*5+4}" for i in range(1, 18)}, 18: '85+' *)

Digit == <<"0", "1", "2", "3", "4", "5", "6", "7", "8", "9">>

\* str(n) for n >= 0, as the f-string formats it
RECURSIVE Str(_)
Str(n) == IF n < 10 THEN Digit[n + 1] ELSE Str(n \div 10) \o Digit[(n % 10) + 1]

AgeLabel(i) == Str((i - 1) * 5) \o "-" \o Str((i - 1) * 5 + 4)

\* variant: range(1, 19) and no entry written for 18 afterwards
age_labels_no_open_end == [i \in 1..18 |-> AgeLabel(i)]

age_labels == [i \in 1..18 |-> IF i = 18 THEN "85+" ELSE AgeLabel(i)]

\* Series.map(dict): a value that is no key of the dict maps to NaN
MapLabel(d, v) == IF v \in DOMAIN d THEN d[v] ELSE NaNLabel

\* age_counts['Rango de Edad'] = age_counts['GRUPO_EDAD1'].map(age_labels)
WithAgeLabels(rows, d) ==
    [n \in DOMAIN rows |->
        [c \in DOMAIN rows[n] \cup {"Rango de Edad"} |->
            IF c = "Rango de Edad" THEN MapLabel(d, rows[n]["GRUPO_EDAD1"])
            ELSE rows[n][c]]]

----------------------------------------------------------------------------
(* The module namespace *)

Bind(env, name, value) ==
    [n \in DOMAIN env \cup {name} |-> IF n = name THEN value ELSE env[n]]

df == ns["df"]
departamentos_geo == ns["departamentos_geo"]
df_2019 == ns["df_2019"]
dept_counts == ns["dept_counts"]
monthly == ns["monthly"]
df_hom == ns["df_hom"]
top5_hom == ns["top5_hom"]
city_counts == ns["city_counts"]
bottom10 == ns["bottom10"]
causes == ns["causes"]
age_counts == ns["age_counts"]
sex_dep == ns["sex_dep"]
fig_map == ns["fig_map"]
fig_line == ns["fig_line"]
fig_bar == ns["fig_bar"]
fig_pie == ns["fig_pie"]
fig_table == ns["fig_table"]
fig_hist == ns["fig_hist"]
fig_stack == ns["fig_stack"]

FigureNames ==
    <<"fig_map", "fig_line", "fig_bar", "fig_pie", "fig_table", "fig_hist", "fig_stack">>

\* the statement moves on to `next` having assigned `name`
Assign(name, value, next) ==
    /\ ns' = Bind(ns, name, value)
    /\ pc' = next
    /\ UNCHANGED <<inputs, layout, served, response>>

\* variant: the exception is caught and the script goes on to start the server
RaiseSwallowed ==
    /\ pc' = "run"
    /\ UNCHANGED <<inputs, ns, layout, served, response>>

\* the statement raises: nothing in the script catches it
Raise ==
    /\ pc' = "crashed"
    /\ UNCHANGED <<inputs, ns, layout, served, response>>

\* frame[column] raises KeyError when the frame has no such column
HasColumns(frame, cols) == cols \subseteq frame.columns

----------------------------------------------------------------------------
(* What each statement computes *)

\* variant: keeps the year before the target year too
Filter2019Loose(frame) ==
    [columns |-> frame.columns,
     rows |-> MaskRows(frame.rows,
                       {i \in DOMAIN frame.rows : frame.rows[i]["AÑO"] >= TargetYear - 1})]

\* df[df['AÑO'] == 2019]
Filter2019(frame) ==
    [columns |-> frame.columns,
     rows |-> MaskRows(frame.rows,
                       {i \in DOMAIN frame.rows : frame.rows[i]["AÑO"] = TargetYear})]

\* variant: groupby(..., dropna=False) keeps a row for the missing department
DeptCountsKeepNaN(frame) ==
    GroupRows(frame.rows, <<"DEPARTAMENTO">>, "Muertes",
              SortKeys(GroupKeys(frame.rows, <<"DEPARTAMENTO">>, FALSE)))

\* df_2019.groupby('DEPARTAMENTO').size().reset_index(name='Muertes')
DeptCountsOf(frame) == GroupBySize(frame.rows, <<"DEPARTAMENTO">>, "Muertes")

\* df_2019.groupby('MES').size().reset_index(name='Muertes')
MonthlyOf(frame) == GroupBySize(frame.rows, <<"MES">>, "Muertes")

\* variant: the manner of death is not filtered
HomicideRowsAll(frame) == frame

\* df_2019[df_2019['MANERA_MUERTE'] == 'Homicidio']
HomicideRows(frame) ==
    [columns |-> frame.columns,
     rows |-> MaskRows(frame.rows,
                       {i \in DOMAIN frame.rows :
                           frame.rows[i]["MANERA_MUERTE"] = Homicidio})]

\* df_hom.groupby('MUNICIPIO').size().reset_index(name='Homicidios')
\*       .nlargest(5, 'Homicidios')
Top5HomOutcomes(frame) ==
    NLargest(GroupBySize(frame.rows, <<"MUNICIPIO">>, "Homicidios"), TopN, "Homicidios")

\* df_2019.groupby('MUNICIPIO').size().reset_index(name='Muertes')
CityCountsOf(frame) == GroupBySize(frame.rows, <<"MUNICIPIO">>, "Muertes")

\* variant: the first ten rows in key order, not the ten smallest
Bottom10Unsorted(counts) == {HeadRows(counts, BottomN)}

\* city_counts.nsmallest(10, 'Muertes')
Bottom10Outcomes(counts) == NSmallest(counts, BottomN, "Muertes")

\* variant: sort_values('Total') with the default ascending=True
CausesAscending(frame) ==
    {HeadRows(t, HeadN) :
        t \in SortValuesOutcomes(
                 GroupBySize(frame.rows, <<"COD_MUERTE", "Descripción CIE-10">>, "Total"),
                 "Total", TRUE)}

\* df_2019.groupby(['COD_MUERTE', 'Descripción CIE-10']).size()
\*        .reset_index(name='Total').sort_values('Total', ascending=False).head(10)
CausesOutcomes(frame) ==
    {HeadRows(t, HeadN) :
        t \in SortValuesOutcomes(
                 GroupBySize(frame.rows, <<"COD_MUERTE", "Descripción CIE-10">>, "Total"),
                 "Total", FALSE)}

\* df_2019.groupby('GRUPO_EDAD1').size().reset_index(name='Muertes'), then
\* the column 'Rango de Edad'
AgeCountsOf(frame, labels) ==
    WithAgeLabels(GroupBySize(frame.rows, <<"GRUPO_EDAD1">>, "Muertes"), labels)

\* variant: a row for every combination of an observed department and an
\* observed sex, with count 0 where no record has it (observed=False on
\* categorical keys)
SexDepZeroFilled(frame) ==
    LET by == <<"DEPARTAMENTO", "SEXO">>
        ks == GroupKeys(frame.rows, by, TRUE)
    IN  GroupRows(frame.rows, by, "Muertes",
                  SortKeys({<<a[1], b[2]>> : a \in ks, b \in ks}))

\* df_2019.groupby(['DEPARTAMENTO', 'SEXO']).size().reset_index(name='Muertes')
SexDepOf(frame) == GroupBySize(frame.rows, <<"DEPARTAMENTO", "SEXO">>, "Muertes")

----------------------------------------------------------------------------
(* The statements of the script, in order *)

CreateApp ==
    /\ pc = "create_app"
    /\ ns' = Bind(Bind(ns, "app", "Dash"), "server", "app.server")
    /\ pc' = "read_parquet"
    /\ UNCHANGED <<inputs, layout, served, response>>

ReadParquet ==
    /\ pc = "read_parquet"
    /\ IF parquetFile.readable
       THEN Assign("df", [columns |-> parquetFile.columns, rows |-> parquetFile.rows],
                   "load_geojson")
       ELSE Raise

LoadGeoJSON ==
    /\ pc = "load_geojson"
    /\ IF geoFile.status = "ok"
       THEN Assign("departamentos_geo", geoFile.features, "filter_year")
       ELSE Raise

FilterYear ==
    /\ pc = "filter_year"
    /\ IF HasColumns(df, {"AÑO"})
       THEN Assign("df_2019", Filter2019(df), "dept_counts")
       ELSE Raise

DeptCounts ==
    /\ pc = "dept_counts"
    /\ IF HasColumns(df_2019, {"DEPARTAMENTO"})
       THEN Assign("dept_counts", DeptCountsOf(df_2019), "fig_map")
       ELSE Raise

FigMap ==
    /\ pc = "fig_map"
    /\ IF renderFault # "fig_map"
       THEN Assign("fig_map",
                   [kind |-> "choropleth",
                    title |-> "Muertes Totales por Departamento (2019)",
                    geojson |-> departamentos_geo,
                    featureidkey |-> "properties.NOMBRE_DPT",
                    locations |-> Column(dept_counts, "DEPARTAMENTO"),
                    color |-> Column(dept_counts, "Muertes"),
                    fitbounds |-> "locations", visible |-> FALSE],
                   "monthly")
       ELSE Raise

Monthly ==
    /\ pc = "monthly"
    /\ IF HasColumns(df_2019, {"MES"})
       THEN Assign("monthly", MonthlyOf(df_2019), "fig_line")
       ELSE Raise

FigLine ==
    /\ pc = "fig_line"
    /\ IF renderFault # "fig_line"
       THEN Assign("fig_line",
                   [kind |-> "line", title |-> "Muertes por Mes (2019)",
                    x |-> Column(monthly, "MES"), y |-> Column(monthly, "Muertes"),
                    dtick |-> 1],
                   "df_hom")
       ELSE Raise

DfHom ==
    /\ pc = "df_hom"
    /\ IF HasColumns(df_2019, {"MANERA_MUERTE"})
       THEN Assign("df_hom", HomicideRows(df_2019), "top5_hom")
       ELSE Raise

Top5Hom ==
    /\ pc = "top5_hom"
    /\ IF HasColumns(df_hom, {"MUNICIPIO"})
       THEN \E t \in Top5HomOutcomes(df_hom) : Assign("top5_hom", t, "fig_bar")
       ELSE Raise

FigBar ==
    /\ pc = "fig_bar"
    /\ IF renderFault # "fig_bar"
       THEN Assign("fig_bar",
                   [kind |-> "bar", title |-> "Top 5 Ciudades Más Violentas (Homicidio)",
                    x |-> Column(top5_hom, "MUNICIPIO"),
                    y |-> Column(top5_hom, "Homicidios")],
                   "city_counts")
       ELSE Raise

CityCounts ==
    /\ pc = "city_counts"
    /\ IF HasColumns(df_2019, {"MUNICIPIO"})
       THEN Assign("city_counts", CityCountsOf(df_2019), "bottom10")
       ELSE Raise

Bottom10 ==
    /\ pc = "bottom10"
    /\ \E t \in Bottom10Outcomes(city_counts) : Assign("bottom10", t, "fig_pie")

FigPie ==
    /\ pc = "fig_pie"
    /\ IF renderFault # "fig_pie"
       THEN Assign("fig_pie",
                   [kind |-> "pie", title |-> "10 Ciudades con Menor Mortalidad",
                    names |-> Column(bottom10, "MUNICIPIO"),
                    values |-> Column(bottom10, "Muertes"),
                    textinfo |-> "label+percent", textposition |-> "inside"],
                   "causes")
       ELSE Raise

Causes ==
    /\ pc = "causes"
    /\ IF HasColumns(df_2019, {"COD_MUERTE", "Descripción CIE-10"})
       THEN \E t \in CausesOutcomes(df_2019) : Assign("causes", t, "fig_table")
       ELSE Raise

FigTable ==
    /\ pc = "fig_table"
    /\ IF renderFault # "fig_table"
       THEN Assign("fig_table",
                   [kind |-> "table", title |-> "Top 10 Causas de Muerte",
                    header |-> <<"Código CIE-10", "Descripción CIE-10", "Total">>,
                    cells |-> <<Column(causes, "COD_MUERTE"),
                                Column(causes, "Descripción CIE-10"),
                                Column(causes, "Total")>>],
                   "age_counts")
       ELSE Raise

AgeCounts ==
    /\ pc = "age_counts"
    /\ IF HasColumns(df_2019, {"GRUPO_EDAD1"})
       THEN /\ ns' = Bind(Bind(ns, "age_labels", age_labels),
                          "age_counts", AgeCountsOf(df_2019, age_labels))
            /\ pc' = "fig_hist"
            /\ UNCHANGED <<inputs, layout, served, response>>
       ELSE Raise

FigHist ==
    /\ pc = "fig_hist"
    /\ IF renderFault # "fig_hist"
       THEN Assign("fig_hist",
                   [kind |-> "bar",
                    title |-> "Distribución de Muertes por Edad Quinquenal",
                    x |-> Column(age_counts, "Rango de Edad"),
                    y |-> Column(age_counts, "Muertes")],
                   "sex_dep")
       ELSE Raise

SexDep ==
    /\ pc = "sex_dep"
    /\ IF HasColumns(df_2019, {"DEPARTAMENTO", "SEXO"})
       THEN Assign("sex_dep", SexDepOf(df_2019), "fig_stack")
       ELSE Raise

FigStack ==
    /\ pc = "fig_stack"
    /\ IF renderFault # "fig_stack"
       THEN Assign("fig_stack",
                   [kind |-> "bar", title |-> "Muertes por Sexo y Departamento",
                    x |-> Column(sex_dep, "DEPARTAMENTO"),
                    y |-> Column(sex_dep, "Muertes"),
                    color |-> Column(sex_dep, "SEXO")],
                   "set_layout")
       ELSE Raise

H1 == [tag |-> "H1", content |-> "Dashboard Mortalidad 2019 - Colombia"]
Graph(fig) == [tag |-> "Graph", content |-> fig]

\* variant: the line chart and the bar chart change places
LayoutSwapped(env) ==
    <<H1, Graph(env["fig_map"]), Graph(env["fig_bar"]), Graph(env["fig_line"]),
      Graph(env["fig_pie"]), Graph(env["fig_table"]), Graph(env["fig_hist"]),
      Graph(env["fig_stack"])>>

\* html.Div([H1, Graph(fig_map), ..., Graph(fig_stack)])
LayoutOf(env) ==
    <<H1, Graph(env["fig_map"]), Graph(env["fig_line"]), Graph(env["fig_bar"]),
      Graph(env["fig_pie"]), Graph(env["fig_table"]), Graph(env["fig_hist"]),
      Graph(env["fig_stack"])>>

SetLayout ==
    /\ pc = "set_layout"
    /\ layout' = LayoutOf(ns)
    /\ pc' = "run"
    /\ UNCHANGED <<inputs, ns, served, response>>

\* if __name__ == '__main__': app.run_server(debug=True); imported by a WSGI
\* host, the module ends here and the host serves `server`
RunServer ==
    /\ pc = "run"
    /\ pc' = "serving"
    /\ UNCHANGED <<inputs, ns, layout, served, response>>

\* the server answers a request for the page with app.layout
HandleRequest ==
    /\ pc = "serving"
    /\ served < MaxRequests
    /\ response' = layout
    /\ served' = served + 1
    /\ UNCHANGED <<pc, inputs, ns, layout>>

Next ==
    \/ CreateApp \/ ReadParquet \/ LoadGeoJSON \/ FilterYear
    \/ DeptCounts \/ FigMap \/ Monthly \/ FigLine
    \/ DfHom \/ Top5Hom \/ FigBar
    \/ CityCounts \/ Bottom10 \/ FigPie
    \/ Causes \/ FigTable
    \/ AgeCounts \/ FigHist
    \/ SexDep \/ FigStack
    \/ SetLayout \/ RunServer \/ HandleRequest

----------------------------------------------------------------------------
(* Input files.  A readable parquet file holds a frame: its columns and    *)
(* its rows; a row has a value for each column of the file.                *)

Restrict(r, cols) == [c \in cols |-> r[c]]

ParquetOf(cols, rows) ==
    [readable |-> TRUE, columns |-> cols,
     rows |-> [i \in DOMAIN rows |-> Restrict(rows[i], cols)]]

Unreadable == [readable |-> FALSE, columns |-> {}, rows |-> <<>>]

GeoOk == [status |-> "ok", features |-> {1, 2, 3}]
GeoBad(why) == [status |-> why, features |-> {}]

\* a record of the small universe: year, department and sex vary freely,
\* the other attributes follow them
SampleRow(y, d, s) ==
    [c \in AllColumns |->
        CASE c = "AÑO" -> y
          [] c = "DEPARTAMENTO" -> d
          [] c = "SEXO" -> s
          [] c = "MUNICIPIO" -> IF d = NaN THEN NaN ELSE 2 * d + s
          [] c = "MANERA_MUERTE" -> IF s = 1 THEN Homicidio ELSE "Natural"
          [] c = "COD_MUERTE" -> s
          [] c = "Descripción CIE-10" -> s
          [] c = "GRUPO_EDAD1" -> IF s = 1 THEN 1 ELSE 18
          [] c = "MES" -> IF d = NaN THEN 12 ELSE d]

SampleRows ==
    {SampleRow(y, d, s) : y \in {TargetYear - 1, TargetYear, NaN},
                          d \in {1, 2, NaN}, s \in {1, 2}}

SeqsUpTo(S, n) == UNION {[1..m -> S] : m \in 0..n}

\* a record of a frame with many keys: copy j of key i
RankRow(i, j, hom, ageBase) ==
    [c \in AllColumns |->
        CASE c = "AÑO" -> TargetYear
          [] c = "DEPARTAMENTO" -> ((i - 1) % 3) + 1
          [] c = "SEXO" -> ((i + j) % 2) + 1
          [] c = "MUNICIPIO" -> i
          [] c = "MANERA_MUERTE" ->
                (CASE hom = "all" -> Homicidio
                   [] hom = "odd" -> IF i % 2 = 1 THEN Homicidio ELSE "Suicidio"
                   [] hom = "first" -> IF j = 1 THEN Homicidio ELSE "homicidio")
          [] c = "COD_MUERTE" -> (i + 1) \div 2
          [] c = "Descripción CIE-10" -> i
          [] c = "GRUPO_EDAD1" -> i - 1 + ageBase
          [] c = "MES" -> ((i - 1) % 12) + 1]

\* how many records key i has, out of k keys
Copies(shape, i, k) ==
    CASE shape = "asc" -> i
      [] shape = "desc" -> k + 1 - i
      [] shape = "pairs" -> (i + 1) \div 2
      [] shape = "shifted" -> (i \div 2) + 1

RECURSIVE RankRows(_, _, _, _, _)
RankRows(i, k, shape, hom, ageBase) ==
    IF i > k THEN <<>>
    ELSE [j \in 1..Copies(shape, i, k) |-> RankRow(i, j, hom, ageBase)]
         \o RankRows(i + 1, k, shape, hom, ageBase)

\* a record of another year, which the filter must leave out
Decoy == [RankRow(1, 1, "all", 1) EXCEPT !["AÑO"] = TargetYear - 1]

\* a record of 2019 whose grouping attributes are all missing
Stray ==
    [c \in AllColumns |->
        CASE c = "AÑO" -> TargetYear
          [] c = "MANERA_MUERTE" -> Homicidio
          [] OTHER -> NaN]

RankShapes ==
    {<<s, "all", 1>> : s \in {"asc", "desc", "pairs", "shifted"}}
    \cup {<<"asc", h, a>> : h \in {"all", "odd", "first"}, a \in {0, 1}}

----------------------------------------------------------------------------
(* Initial states *)

InitProgram ==
    /\ pc = "create_app"
    /\ ns = [n \in {} |-> 0]
    /\ layout = <<>>
    /\ served = 0
    /\ response = <<>>

\* small frames of any content, both files good
InitData ==
    /\ InitProgram
    /\ \E rows \in SeqsUpTo(SampleRows, MaxRows) : parquetFile = ParquetOf(AllColumns, rows)
    /\ geoFile = GeoOk
    /\ renderFault = "none"

\* a file that is missing or corrupt, a column that the file lacks, a figure
\* constructor that raises
InitFaults ==
    /\ InitProgram
    /\ \E cols \in {AllColumns} \cup {AllColumns \ {c} : c \in AllColumns} :
          parquetFile \in {Unreadable,
                           ParquetOf(cols, <<SampleRow(TargetYear, 1, 1),
                                             SampleRow(TargetYear - 1, 2, 2)>>)}
    /\ geoFile \in {GeoOk, GeoBad("missing"), GeoBad("corrupt")}
    /\ renderFault \in {"none"} \cup Range(FigureNames)

\* frames with up to MaxKeys municipalities, causes and age codes
InitRank ==
    /\ InitProgram
    /\ \E k \in 0..MaxKeys, p \in RankShapes :
          parquetFile = ParquetOf(AllColumns,
                                  <<Decoy, Stray>> \o RankRows(1, k, p[1], p[2], p[3]))
    /\ geoFile = GeoOk
    /\ renderFault = "none"

Init == InitData \/ InitFaults

Spec == Init /\ [][Next]_vars

SpecRank == InitRank /\ [][Next]_vars

----------------------------------------------------------------------------
(* Properties *)

Bound(name) == name \in DOMAIN ns

\* how many rows of a frame equal r
Occurrences(rows, r) == Cardinality({i \in DOMAIN rows : rows[i] = r})

\* how many rows of a frame satisfy: column c holds v, for each c in DOMAIN kv
Matching(rows, kv) ==
    Cardinality({i \in DOMAIN rows : \A c \in DOMAIN kv : rows[i][c] = kv[c]})

RECURSIVE SumOf(_)
SumOf(s) == IF s = <<>> THEN 0 ELSE Head(s) + SumOf(Tail(s))

NonIncreasing(s) == \A i, j \in DOMAIN s : i < j => s[i] >= s[j]
NonDecreasing(s) == \A i, j \in DOMAIN s : i < j => s[i] <= s[j]
Min(a, b) == IF a < b THEN a ELSE b

\* the values other than NaN that column c takes in a frame
Present(rows, c) == {rows[i][c] : i \in DOMAIN rows} \ {NaN}

(* C1: the year filter keeps exactly the records of 2019.  Every record of *)
(* df whose year is 2019 is in df_2019 as often as in df, no record of     *)
(* another (or a missing) year is in it, every record of df_2019 is a      *)
(* record of df, and df_2019 is empty (the script goes on) when no record  *)
(* matches.                                                                *)
C1_YearFilterExact ==
    /\ (Bound("df") /\ Bound("departamentos_geo") /\ "AÑO" \in df.columns
            /\ pc # "filter_year") => Bound("df_2019")
    /\ Bound("df_2019") =>
        /\ \A i \in DOMAIN df_2019.rows : df_2019.rows[i]["AÑO"] = 2019
        /\ Range(df_2019.rows) \subseteq Range(df.rows)
        /\ \A r \in Range(df.rows) :
              Occurrences(df_2019.rows, r) =
                  IF r["AÑO"] = 2019 THEN Occurrences(df.rows, r) ELSE 0
        /\ ((\A r \in Range(df.rows) : r["AÑO"] # 2019) => df_2019.rows = <<>>)
        /\ pc # "filter_year"

\* a frame with a record of 2019 and a record of another year has been filtered
C1_Witness ==
    /\ pc = "dept_counts"
    /\ Bound("df_2019")
    /\ \E i, j \in DOMAIN df.rows : df.rows[i]["AÑO"] = 2019 /\ df.rows[j]["AÑO"] # 2019
    /\ Len(df_2019.rows) = 1

(* C2 as stated: the 'Muertes' counts of dept_counts add up to the number  *)
(* of records of df_2019, also when records have a missing department.     *)
C2_SumEqualsAllRecords ==
    Bound("dept_counts") =>
        SumOf(Column(dept_counts, "Muertes")) = Len(df_2019.rows)

(* C2 amended: the 'Muertes' counts of dept_counts add up to the number of *)
(* records of df_2019 whose department is not missing; each row counts the *)
(* records of its department.                                              *)
C2_SumEqualsRecordsWithDepartment ==
    Bound("dept_counts") =>
        /\ SumOf(Column(dept_counts, "Muertes")) =
              Cardinality({i \in DOMAIN df_2019.rows :
                              df_2019.rows[i]["DEPARTAMENTO"] # NaN})
        /\ \A n \in DOMAIN dept_counts :
              /\ dept_counts[n]["DEPARTAMENTO"] # NaN
              /\ dept_counts[n]["Muertes"] =
                    Matching(df_2019.rows,
                             [c \in {"DEPARTAMENTO"} |-> dept_counts[n]["DEPARTAMENTO"]])

\* the table was computed from records with and without a department
C2_Witness ==
    /\ Bound("dept_counts")
    /\ \E i, j \in DOMAIN df_2019.rows :
          /\ df_2019.rows[i]["DEPARTAMENTO"] = NaN
          /\ df_2019.rows[j]["DEPARTAMENTO"] # NaN

(* C7: sex_dep has exactly one row for each (department, sex) pair that    *)
(* occurs in a record of df_2019, no row for a pair that occurs in none    *)
(* (no zero-filled rows), and each row's count is the number of records    *)
(* with that pair.  A record whose department is missing carries no        *)
(* (department, sex) pair.                                                 *)
C7_SexDepRowsArePresentPairs ==
    Bound("sex_dep") =>
        LET pairs == {<<r["DEPARTAMENTO"], r["SEXO"]>> : r \in Range(df_2019.rows)}
            real == {p \in pairs : p[1] # NaN /\ p[2] # NaN}
            rowPair(n) == <<sex_dep[n]["DEPARTAMENTO"], sex_dep[n]["SEXO"]>>
        IN  /\ {rowPair(n) : n \in DOMAIN sex_dep} = real
            /\ Len(sex_dep) = Cardinality(real)
            /\ \A n \in DOMAIN sex_dep :
                  /\ sex_dep[n]["Muertes"] > 0
                  /\ sex_dep[n]["Muertes"] =
                        Cardinality({i \in DOMAIN df_2019.rows :
                            /\ df_2019.rows[i]["DEPARTAMENTO"] = rowPair(n)[1]
                            /\ df_2019.rows[i]["SEXO"] = rowPair(n)[2]})

\* two departments and two sexes occur, but not every combination of them
C7_Witness ==
    /\ Bound("sex_dep")
    /\ Len(sex_dep) = 2
    /\ sex_dep[1]["DEPARTAMENTO"] # sex_dep[2]["DEPARTAMENTO"]
    /\ sex_dep[1]["SEXO"] # sex_dep[2]["SEXO"]


\* the number of records of df_2019 of municipality m that are homicides
HomicidesIn(m) ==
    Cardinality({i \in DOMAIN df_2019.rows :
                    /\ df_2019.rows[i]["MUNICIPIO"] = m
                    /\ df_2019.rows[i]["MANERA_MUERTE"] = "Homicidio"})

\* the number of records of df_2019 of municipality m
DeathsIn(m) ==
    Cardinality({i \in DOMAIN df_2019.rows : df_2019.rows[i]["MUNICIPIO"] = m})

(* C3: top5_hom counts only the records whose manner of death is exactly   *)
(* 'Homicidio'; it has min(5, number of municipalities with such a record) *)
(* rows, one municipality each, in non-increasing order of the count, and  *)
(* no municipality left out has more homicides than one in the table.      *)
C3_Top5Homicides ==
    Bound("top5_hom") =>
        LET cities == {m \in Present(df_2019.rows, "MUNICIPIO") : HomicidesIn(m) > 0}
            inTable == Range(Column(top5_hom, "MUNICIPIO"))
        IN  /\ \A n \in DOMAIN top5_hom :
                  top5_hom[n]["Homicidios"] = HomicidesIn(top5_hom[n]["MUNICIPIO"])
            /\ Len(top5_hom) = Min(5, Cardinality(cities))
            /\ Cardinality(inTable) = Len(top5_hom)
            /\ inTable \subseteq cities
            /\ NonIncreasing(Column(top5_hom, "Homicidios"))
            /\ \A out \in cities \ inTable, in \in inTable :
                  HomicidesIn(out) <= HomicidesIn(in)

\* more than five municipalities have homicides, some records of the listed
\* municipalities are not homicides, and the table was cut to five rows
C3_Witness ==
    /\ Bound("top5_hom")
    /\ Len(top5_hom) = 5
    /\ Cardinality({m \in Present(df_2019.rows, "MUNICIPIO") : HomicidesIn(m) > 0}) > 5
    /\ \E n \in DOMAIN top5_hom :
          HomicidesIn(top5_hom[n]["MUNICIPIO"]) < DeathsIn(top5_hom[n]["MUNICIPIO"])

(* C4: bottom10 has min(10, number of distinct municipalities of df_2019)  *)
(* rows, one municipality each with its number of deaths, in               *)
(* non-decreasing order of the count, and no municipality left out has     *)
(* fewer deaths than one in the table.                                     *)
C4_Bottom10 ==
    Bound("bottom10") =>
        LET cities == Present(df_2019.rows, "MUNICIPIO")
            inTable == Range(Column(bottom10, "MUNICIPIO"))
        IN  /\ \A n \in DOMAIN bottom10 :
                  bottom10[n]["Muertes"] = DeathsIn(bottom10[n]["MUNICIPIO"])
            /\ Len(bottom10) = Min(10, Cardinality(cities))
            /\ Cardinality(inTable) = Len(bottom10)
            /\ inTable \subseteq cities
            /\ NonDecreasing(Column(bottom10, "Muertes"))
            /\ \A out \in cities \ inTable, in \in inTable :
                  DeathsIn(out) >= DeathsIn(in)

\* more than ten municipalities, the table cut to ten rows, and a
\* municipality left out with as many deaths as the last one listed
C4_Witness ==
    /\ Bound("bottom10")
    /\ Len(bottom10) = 10
    /\ \E m \in Present(df_2019.rows, "MUNICIPIO") :
          /\ m \notin Range(Column(bottom10, "MUNICIPIO"))
          /\ DeathsIn(m) = bottom10[10]["Muertes"]

(* C5: causes has at most 10 rows, in non-increasing order of 'Total';     *)
(* every row's (cause code, cause description) pair occurs in a record of  *)
(* df_2019 and the row's 'Total' is the number of records with that pair.  *)
C5_TopCauses ==
    Bound("causes") =>
        /\ Len(causes) <= 10
        /\ NonIncreasing(Column(causes, "Total"))
        /\ \A n \in DOMAIN causes :
              LET with == {i \in DOMAIN df_2019.rows :
                              /\ df_2019.rows[i]["COD_MUERTE"] = causes[n]["COD_MUERTE"]
                              /\ df_2019.rows[i]["Descripción CIE-10"] =
                                    causes[n]["Descripción CIE-10"]}
              IN  with # {} /\ causes[n]["Total"] = Cardinality(with)

\* more than ten pairs occur, two of them with the same code, and the table
\* was cut to ten rows with distinct totals among them
C5_Witness ==
    /\ Bound("causes")
    /\ Len(causes) = 10
    /\ Cardinality({<<r["COD_MUERTE"], r["Descripción CIE-10"]>> :
                       r \in Range(df_2019.rows)}) > 11
    /\ causes[1]["Total"] > causes[10]["Total"]
    /\ \E n, m \in DOMAIN causes :
          n # m /\ causes[n]["COD_MUERTE"] = causes[m]["COD_MUERTE"]

(* C6 as stated: age_counts has at most 18 rows, and every row's label is  *)
(* what the label map gives for the row's age-group code (a missing label  *)
(* for a code the map does not have).                                      *)
C6_AtMost18RowsAllLabelled ==
    Bound("age_counts") =>
        /\ Len(age_counts) <= 18
        /\ \A n \in DOMAIN age_counts :
              LET code == age_counts[n]["GRUPO_EDAD1"]
              IN  age_counts[n]["Rango de Edad"] =
                     IF code \in DOMAIN ns["age_labels"]
                     THEN ns["age_labels"][code] ELSE "NaN"
        /\ ns["age_labels"][18] = "85+"

(* C6 amended: age_counts has one row for each distinct age-group code of  *)
(* df_2019 that is not missing, so at most 18 rows when every code lies in *)
(* 1..18; a row whose code is in 1..18 is labelled with the five-year      *)
(* range of the code ("0-4" for 1, ..., "80-84" for 17) and code 18 with   *)
(* the literal "85+"; a row with any other code has a missing label.       *)
C6_AgeRowsLabelledWithinMap ==
    Bound("age_counts") =>
        LET codes == Present(df_2019.rows, "GRUPO_EDAD1")
            FiveYears == <<"0-4", "5-9", "10-14", "15-19", "20-24", "25-29",
                           "30-34", "35-39", "40-44", "45-49", "50-54", "55-59",
                           "60-64", "65-69", "70-74", "75-79", "80-84", "85+">>
        IN  /\ Range(Column(age_counts, "GRUPO_EDAD1")) = codes
            /\ Len(age_counts) = Cardinality(codes)
            /\ (codes \subseteq 1..18 => Len(age_counts) <= 18)
            /\ \A n \in DOMAIN age_counts :
                  LET code == age_counts[n]["GRUPO_EDAD1"]
                  IN  age_counts[n]["Rango de Edad"] =
                         IF code \in 1..18 THEN FiveYears[code] ELSE "NaN"

\* the records carry the codes 1..18 and one code outside the map
C6_Witness ==
    /\ Bound("age_counts")
    /\ Len(age_counts) = 19
    /\ \E n \in DOMAIN age_counts :
          age_counts[n]["GRUPO_EDAD1"] = 18 /\ age_counts[n]["Rango de Edad"] = "85+"
    /\ \E n \in DOMAIN age_counts : age_counts[n]["Rango de Edad"] = "NaN"


\* the start-up cannot complete with these input files and this plotting fault
StartupFails ==
    \/ ~parquetFile.readable
    \/ parquetFile.columns # AllColumns
    \/ geoFile.status # "ok"
    \/ renderFault # "none"

SevenFigures ==
    {"fig_map", "fig_line", "fig_bar", "fig_pie", "fig_table", "fig_hist", "fig_stack"}

(* C9: when a start-up step fails (a file cannot be loaded, a column is    *)
(* missing for the filter or an aggregation, a chart build raises) the     *)
(* application never serves the page: the script stays where it crashed,   *)
(* no layout is assigned and no request is answered.  The layout is        *)
(* assigned, and requests are answered, only when all seven figures have   *)
(* been built, and a page that is served has the heading and seven graphs. *)
C9_NoServingAfterFailure ==
    /\ (StartupFails \/ pc = "crashed") =>
          /\ pc \notin {"run", "serving"}
          /\ layout = <<>>
          /\ served = 0
          /\ response = <<>>
    /\ (pc \in {"run", "serving"} \/ layout # <<>> \/ served > 0) =>
          /\ SevenFigures \subseteq DOMAIN ns
          /\ Len(layout) = 8
    /\ served > 0 =>
          /\ pc = "serving"
          /\ Len(response) = 8
          /\ \A n \in 2..8 : response[n].tag = "Graph"

\* a chart build failed after some figures had been built
C9_Witness ==
    /\ pc = "crashed"
    /\ renderFault = "fig_table"
    /\ {"fig_map", "fig_line", "fig_bar", "fig_pie"} \subseteq DOMAIN ns
    /\ "fig_table" \notin DOMAIN ns

(* C10: once start-up has completed the layout is the heading followed by  *)
(* the seven figures in the order map, line, bar, pie, table, histogram,   *)
(* stacked bar, and answering a request changes neither the loaded         *)
(* records, the filtered records, the tables, the figures nor the layout.  *)
C10_LayoutFixedAndServingChangesNothing ==
    /\ [](pc = "serving" =>
            /\ Len(layout) = 8
            /\ layout[1].tag = "H1"
            /\ \A n \in 2..8 : layout[n].tag = "Graph"
            /\ <<layout[2].content, layout[3].content, layout[4].content,
                 layout[5].content, layout[6].content, layout[7].content,
                 layout[8].content>>
               = <<fig_map, fig_line, fig_bar, fig_pie, fig_table, fig_hist, fig_stack>>
            /\ <<fig_map.kind, fig_line.kind, fig_bar.kind, fig_pie.kind,
                 fig_table.kind>>
               = <<"choropleth", "line", "bar", "pie", "table">>
            /\ fig_hist.x = Column(age_counts, "Rango de Edad")
            /\ fig_stack.color = Column(sex_dep, "SEXO")
            /\ (served > 0 => response = layout))
    /\ [][pc = "serving" => ns' = ns /\ layout' = layout /\ pc' = "serving"]_vars

\* two requests have been answered
C10_Witness ==
    /\ pc = "serving"
    /\ served = 2
    /\ Len(df_2019.rows) > 0
    /\ response = layout

============================================================================
